---------------------------- MODULE Spec2Model ----------------------------
(***************************************************************************)
(* A model of climate-trajectories/merge_data.py: the normalisation of     *)
(* OWID-like indicator files (read_owid_csv), the annualisation of the      *)
(* country temperature anomalies (load_country_temp_anom), the export of    *)
(* the global monthly series (export_global_temp_monthly) and the merge     *)
(* pipeline of main().                                                      *)
(*                                                                         *)
(* A DataFrame is a record [cols, rows]: cols is the sequence of column    *)
(* labels, rows a sequence of rows, each row a sequence of cells in the    *)
(* order of cols.  A cell is what pandas holds after read_csv: NaN, a      *)
(* number or a text.  Text is a sequence of character codes, so that the   *)
(* regular expression and the lexicographic order are computed on the      *)
(* characters.  Numbers are fractions n/d in lowest terms (d > 0).          *)
(***************************************************************************)
EXTENDS Integers, Sequences, FiniteSets, TLC

VARIABLES
    pc,         \* position in main(), or in the call of one function
    dataDir,    \* DATA_DIR: file name -> content (a DataFrame, a zip, ...)
    paths,      \* co2_path .. gdp_path as found by find_first_existing
    ind,        \* the normalised tables co2, energy, water, sanit, gdp
    temp,       \* the annual temperature table, or None
    df,         \* the merged table being built by main()
    outFile,    \* content of OUT_FILE (core_merged.csv), or Absent
    globalOut,  \* content of GLOBAL_TEMP_OUT, or Absent
    arg,        \* argument of the function under call (function specifications)
    ret,        \* its result
    ret2        \* the result of a second application to ret

vars == <<pc, dataDir, paths, ind, temp, df, outFile, globalOut, arg, ret, ret2>>

START_YEAR == 2000
END_YEAR == 2023

-----------------------------------------------------------------------------
(* Text used by the bounded inputs, as character codes.                     *)
TST == <<84, 83, 84>>                  \* "TST"
USA == <<85, 83, 65>>                  \* "USA"
FRA == <<70, 82, 65>>                  \* "FRA"
T1 == <<84, 49>>                       \* "T1"
tst == <<116, 115, 116>>               \* "tst"
TST_NL == <<84, 83, 84, 10>>           \* "TST\n" (a quoted CSV field ending in a newline)
TSTX == <<84, 83, 84, 88>>             \* "TSTX"
Testland == <<84, 101, 115, 116, 108, 97, 110, 100>>
UnitedStates == <<85, 110, 105, 116, 101, 100, 32, 83, 116, 97, 116, 101, 115>>
America == <<65, 109, 101, 114, 105, 99, 97>>
France == <<70, 114, 97, 110, 99, 101>>
abc == <<97, 98, 99>>                  \* "abc"
y2010 == <<50, 48, 49, 48>>            \* "2010" held as text

January == <<74, 97, 110, 117, 97, 114, 121>>
February == <<70, 101, 98, 114, 117, 97, 114, 121>>
March == <<77, 97, 114, 99, 104>>
April == <<65, 112, 114, 105, 108>>
May == <<77, 97, 121>>
June == <<74, 117, 110, 101>>
July == <<74, 117, 108, 121>>
August == <<65, 117, 103, 117, 115, 116>>
September == <<83, 101, 112, 116, 101, 109, 98, 101, 114>>
October == <<79, 99, 116, 111, 98, 101, 114>>
November == <<78, 111, 118, 101, 109, 98, 101, 114>>
December == <<68, 101, 99, 101, 109, 98, 101, 114>>
january == <<106, 97, 110, 117, 97, 114, 121>>   \* lower case: not a key of order_map
Smarch == <<83, 109, 97, 114, 99, 104>>

-----------------------------------------------------------------------------
(* Cells.                                                                   *)
NaN == [t |-> "nan"]
Frac(n, d) == [t |-> "num", n |-> n, d |-> d]
Num(n) == Frac(n, 1)
Str(s) == [t |-> "str", s |-> s]
Date(y, m, d) == [t |-> "date", y |-> y, m |-> m, d |-> d]  \* the text "y-m-d"

IsNaN(c) == c.t = "nan"
IsNum(c) == c.t = "num"
IsStr(c) == c.t = "str"

RECURSIVE Gcd(_, _)
Gcd(a, b) == IF b = 0 THEN a ELSE Gcd(b, a % b)

Abs(n) == IF n < 0 THEN 0 - n ELSE n

\* the fraction n/d (d > 0) in lowest terms
Reduce(n, d) ==
    LET g == Gcd(Abs(n), d)
    IN  IF g = 0 THEN Frac(0, 1) ELSE Frac(n \div g, d \div g)

IsDigit(ch) == 48 <= ch /\ ch <= 57
IsUpper(ch) == 65 <= ch /\ ch <= 90

RECURSIVE ParseDigits(_)
ParseDigits(s) ==
    IF s = <<>> THEN 0
    ELSE 10 * ParseDigits(SubSeq(s, 1, Len(s) - 1)) + (s[Len(s)] - 48)

RECURSIVE Digits(_)
Digits(n) == IF n < 10 THEN <<48 + n>> ELSE Append(Digits(n \div 10), 48 + (n % 10))

\* pd.to_numeric(x, errors="coerce") on one cell: a number stays, a text of
\* decimal digits is parsed, anything else becomes NaN.
ToNumeric(c) ==
    IF IsNum(c) THEN c
    ELSE IF IsStr(c) /\ c.s # <<>> /\ \A i \in 1..Len(c.s) : IsDigit(c.s[i])
         THEN Num(ParseDigits(c.s))
    ELSE NaN

\* Series.between(left, right): inclusive on both sides, False on NaN
Between(c, left, right) ==
    IsNum(c) /\ left * c.d <= c.n /\ c.n <= right * c.d

\* Series.astype("string") on one cell: NaN stays missing, a text stays, a
\* (non-negative whole) number becomes its decimal text.
AsString(c) ==
    IF IsNum(c) /\ c.d = 1 /\ c.n >= 0 THEN Str(Digits(c.n)) ELSE c

\* Series.str.match(r"^[A-Z]{3}$", na=False) on one cell.  str.match is
\* re.match: three upper-case letters from the start, and then "$", which in
\* Python matches at the end of the text and also just before a newline that
\* ends the text.
MatchIso3(c) ==
    /\ IsStr(c)
    /\ Len(c.s) >= 3
    /\ \A i \in 1..3 : IsUpper(c.s[i])
    /\ \/ Len(c.s) = 3
       \/ Len(c.s) = 4 /\ c.s[4] = 10

-----------------------------------------------------------------------------
(* DataFrames.                                                              *)
EmptyDf == [cols |-> <<>>, rows |-> <<>>]

HasCol(d, c) == \E i \in 1..Len(d.cols) : d.cols[i] = c
ColIdx(d, c) == CHOOSE i \in 1..Len(d.cols) : d.cols[i] = c
Cell(d, row, c) == row[ColIdx(d, c)]

\* DataFrame.rename(columns=map); labels that are not columns are ignored
Rename(d, map) ==
    [d EXCEPT !.cols = [i \in 1..Len(d.cols) |->
        IF d.cols[i] \in DOMAIN map THEN map[d.cols[i]] ELSE d.cols[i]]]

\* df[c] = cell, for a column that does not exist yet: appended last
AddCol(d, c, cell) ==
    [cols |-> Append(d.cols, c),
     rows |-> [i \in 1..Len(d.rows) |-> Append(d.rows[i], cell)]]

\* df[c] = F(df[c]) cell by cell (lines 42, 45, 47, 71, 74, 76, 95, 97)
MapCol(d, c, F(_)) ==
    [d EXCEPT !.rows = [i \in 1..Len(d.rows) |->
        [d.rows[i] EXCEPT ![ColIdx(d, c)] = F(@)]]]

\* df[mask], the mask computed from column c (lines 43, 46, 73, 75, 96, 103)
FilterCol(d, c, P(_)) ==
    [d EXCEPT !.rows = SelectSeq(d.rows, LAMBDA r : P(r[ColIdx(d, c)]))]

\* df[[c1, ..., cn]]
Select(d, cs) ==
    [cols |-> cs,
     rows |-> [i \in 1..Len(d.rows) |->
                 [j \in 1..Len(cs) |-> d.rows[i][ColIdx(d, cs[j])]]]]

Returned(d) == [exc |-> "none", df |-> d]
Raised(e) == [exc |-> e, df |-> EmptyDf]

\* the value None of a variable that holds a result
None == [exc |-> "None", df |-> EmptyDf]

\* files of DATA_DIR: a path that does not exist, a CSV file holding a table, a
\* zip archive holding one CSV member, a file that is no zip archive
Absent == [kind |-> "absent", member |-> "", df |-> EmptyDf]
CsvFile(d) == [kind |-> "csv", member |-> "", df |-> d]
ZipFile(member, d) == [kind |-> "zip", member |-> member, df |-> d]
Garbage == [kind |-> "garbage", member |-> "", df |-> EmptyDf]

-----------------------------------------------------------------------------
(* read_owid_csv                                                            *)
KeyCols == {"Entity", "Code", "Year"}

\* the check of line 26 left out
MissingEntityOrYear_Never(d) == FALSE

\* line 26: the file is rejected
MissingEntityOrYear(d) == ~HasCol(d, "Entity") \/ ~HasCol(d, "Year")

\* lines 28-30
WithCode(d) == IF HasCol(d, "Code") THEN d ELSE AddCol(d, "Code", NaN)

\* lines 33-37: the last column that is not Entity, Code or Year; "" for None
ValueCol(d) ==
    LET cand == {i \in 1..Len(d.cols) : d.cols[i] \notin KeyCols}
    IN  IF cand = {} THEN ""
        ELSE d.cols[CHOOSE i \in cand : \A j \in cand : j <= i]

InYearWindow(c) == Between(c, START_YEAR, END_YEAR)

\* lines 41-48, on a frame that has the columns and a value column
Normalize(d, value_col, value_name) ==
    LET d1 == Rename(d, [c \in {"Entity", "Code", "Year", value_col} |->
                    CASE c = "Entity" -> "country"
                      [] c = "Code" -> "iso3"
                      [] c = "Year" -> "year"
                      [] OTHER -> value_name])
    IN  IF ~HasCol(d1, "year") \/ ~HasCol(d1, "iso3") \/ ~HasCol(d1, "country")
        THEN Raised("KeyError")
        ELSE
        LET d2 == MapCol(d1, "year", ToNumeric)
            d3 == FilterCol(d2, "year", InYearWindow)
            d4 == MapCol(d3, "iso3", AsString)
            d5 == FilterCol(d4, "iso3", MatchIso3)
            d6 == MapCol(d5, value_name, ToNumeric)
        IN  Returned(Select(d6, <<"iso3", "country", "year", value_name>>))

ReadOwidCsv(d, value_name) ==
    IF MissingEntityOrYear(d) THEN Raised("ValueError")
    ELSE LET d1 == WithCode(d)
             value_col == ValueCol(d1)
         IN  IF value_col = "" THEN Raised("ValueError")
             ELSE Normalize(d1, value_col, value_name)

-----------------------------------------------------------------------------
(* Order of cells and rows, as the sorts of pandas use it: numbers by value, *)
(* text by its characters, NaN last.                                        *)
RECURSIVE SeqLess(_, _)
SeqLess(a, b) ==
    IF b = <<>> THEN FALSE
    ELSE IF a = <<>> THEN TRUE
    ELSE IF a[1] # b[1] THEN a[1] < b[1]
    ELSE SeqLess(Tail(a), Tail(b))

CellLess(a, b) ==
    IF IsNaN(a) THEN FALSE
    ELSE IF IsNaN(b) THEN TRUE
    ELSE IF IsNum(a) /\ IsNum(b) THEN a.n * b.d < b.n * a.d
    ELSE IF IsStr(a) /\ IsStr(b) THEN SeqLess(a.s, b.s)
    ELSE IsNum(a) /\ IsStr(b)

\* lexicographic order of two tuples of cells of the same length
RECURSIVE KeyLess(_, _)
KeyLess(k1, k2) ==
    IF k1 = <<>> THEN FALSE
    ELSE IF k1[1] # k2[1] THEN CellLess(k1[1], k2[1])
    ELSE KeyLess(Tail(k1), Tail(k2))

\* the cells of a row in the columns cs
KeyOf(d, row, cs) == [j \in 1..Len(cs) |-> row[ColIdx(d, cs[j])]]

RECURSIVE InsertSorted(_, _, _, _)
InsertSorted(d, sorted, row, by) ==
    IF sorted = <<>> THEN <<row>>
    ELSE IF KeyLess(KeyOf(d, row, by), KeyOf(d, Head(sorted), by))
         THEN <<row>> \o sorted
         ELSE <<Head(sorted)>> \o InsertSorted(d, Tail(sorted), row, by)

\* rows in ascending order of the columns "by"; equal keys keep their order
RECURSIVE SortedRows(_, _, _)
SortedRows(d, rows, by) ==
    IF rows = <<>> THEN <<>>
    ELSE InsertSorted(d, SortedRows(d, SubSeq(rows, 1, Len(rows) - 1), by),
                      rows[Len(rows)], by)

\* DataFrame.sort_values(by)
SortValues(d, by) == [d EXCEPT !.rows = SortedRows(d, d.rows, by)]

-----------------------------------------------------------------------------
(* read_zip_csv and load_country_temp_anom                                  *)
ReadZipCsv(file, csv_name) ==
    IF file.kind # "zip" THEN Raised("BadZipFile")
    ELSE IF file.member # csv_name THEN Raised("KeyError")
    ELSE Returned(file.df)

IsLeap(y) == (y % 4 = 0 /\ y % 100 # 0) \/ y % 400 = 0
DaysInMonth(y, m) ==
    IF m = 2 THEN (IF IsLeap(y) THEN 29 ELSE 28)
    ELSE IF m \in {4, 6, 9, 11} THEN 30 ELSE 31

\* pd.to_datetime(x, errors="coerce") on one cell: a calendar date stays, a
\* number counts nanoseconds from 1970-01-01, anything else is NaT.
ToDatetime(c) ==
    IF c.t = "date"
    THEN IF c.m \in 1..12 /\ c.d >= 1 /\ c.d <= DaysInMonth(c.y, c.m) THEN c ELSE NaN
    ELSE IF IsNum(c) THEN Date(1970, 1, 1)
    ELSE NaN

\* Series.dt.year on one cell
YearOf(c) == IF c.t = "date" THEN Num(c.y) ELSE NaN

TempNeeded == {"Entity", "Code", "Day", "Temperature anomaly"}

FracAdd(a, b) == Reduce(a.n * b.d + b.n * a.d, a.d * b.d)

RECURSIVE SumCells(_)
SumCells(cells) ==
    IF cells = <<>> THEN Num(0) ELSE FracAdd(Head(cells), SumCells(Tail(cells)))

\* a mean that counts a missing anomaly as zero
Mean_NaNAsZero(cells) ==
    IF cells = <<>> THEN NaN
    ELSE LET s == SumCells(SelectSeq(cells, IsNum)) IN Reduce(s.n, s.d * Len(cells))

\* Series.mean() of a group: NaN is skipped; NaN when nothing is left
Mean(cells) ==
    LET valid == SelectSeq(cells, IsNum)
    IN  IF valid = <<>> THEN NaN
        ELSE LET s == SumCells(valid) IN Reduce(s.n, s.d * Len(valid))

\* the keys of the groups: rows with NaN in a key column form no group
GroupKeys(d, by) ==
    {KeyOf(d, d.rows[i], by) : i \in {j \in 1..Len(d.rows) :
        \A k \in 1..Len(by) : ~IsNaN(d.rows[j][ColIdx(d, by[k])])}}

RECURSIVE SortedKeys(_)
SortedKeys(ks) ==
    IF ks = {} THEN <<>>
    ELSE LET least == CHOOSE k \in ks : \A o \in ks : ~KeyLess(o, k)
         IN  <<least>> \o SortedKeys(ks \ {least})

\* df.groupby(by, as_index=False)[col].mean(): one row per group, in key order
GroupByMean(d, by, col) ==
    LET keys == SortedKeys(GroupKeys(d, by))
        members(k) == SelectSeq(d.rows, LAMBDA r : KeyOf(d, r, by) = k)
        values(k) == [i \in 1..Len(members(k)) |-> members(k)[i][ColIdx(d, col)]]
    IN  [cols |-> Append(by, col),
         rows |-> [i \in 1..Len(keys) |-> Append(keys[i], Mean(values(keys[i])))]]

\* df["year"] = df["day"].dt.year
WithYear(d) ==
    [cols |-> Append(d.cols, "year"),
     rows |-> [i \in 1..Len(d.rows) |->
                 Append(d.rows[i], YearOf(d.rows[i][ColIdx(d, "day")]))]]

LoadCountryTempAnom(file) ==
    LET r == ReadZipCsv(file, "monthly-temperature-anomalies.csv")
    IN  IF r.exc # "none" THEN r
        ELSE IF ~(\A c \in TempNeeded : HasCol(r.df, c)) THEN Raised("ValueError")
        ELSE
        LET d1 == Rename(r.df, [c \in TempNeeded |->
                    CASE c = "Entity" -> "country"
                      [] c = "Code" -> "iso3"
                      [] c = "Temperature anomaly" -> "temp_anom"
                      [] OTHER -> "day"])
            d2 == MapCol(d1, "day", ToDatetime)
            d3 == WithYear(d2)
            d4 == FilterCol(d3, "year", InYearWindow)
            d5 == MapCol(d4, "iso3", AsString)
            d6 == FilterCol(d5, "iso3", MatchIso3)
            d7 == MapCol(d6, "temp_anom", ToNumeric)
        IN  Returned(GroupByMean(d7, <<"iso3", "country", "year">>, "temp_anom"))

-----------------------------------------------------------------------------
(* export_global_temp_monthly                                               *)
GlobalNeeded == {"Entity", "Year", "Temperature anomaly"}

month_order == <<January, February, March, April, May, June, July, August,
                 September, October, November, December>>

\* Series.map(order_map) on one cell: the 1-based position of the month name,
\* NaN for anything that is not a key of the dict
MapMonth(c) ==
    IF IsStr(c) /\ \E i \in 1..Len(month_order) : month_order[i] = c.s
    THEN Num(CHOOSE i \in 1..Len(month_order) : month_order[i] = c.s)
    ELSE NaN

\* df["month_idx"] = df["month"].map(order_map)
WithMonthIdx(d) ==
    [cols |-> Append(d.cols, "month_idx"),
     rows |-> [i \in 1..Len(d.rows) |->
                 Append(d.rows[i], MapMonth(d.rows[i][ColIdx(d, "month")]))]]

NotNaN(c) == ~IsNaN(c)

\* the sort of line 103 without the month
GlobalSortBy_YearOnly == <<"year">>

GlobalSortBy == <<"year", "month_idx">>

\* the table that export_global_temp_monthly writes to GLOBAL_TEMP_OUT, or
\* the exception it raises before writing
ExportGlobalTempMonthly(file) ==
    LET r == ReadZipCsv(file, "global-temperature-anomalies-by-month.csv")
    IN  IF r.exc # "none" THEN r
        ELSE IF ~(\A c \in GlobalNeeded : HasCol(r.df, c)) THEN Raised("ValueError")
        ELSE
        LET d1 == Rename(r.df, [c \in GlobalNeeded |->
                    CASE c = "Entity" -> "month"
                      [] c = "Year" -> "year"
                      [] OTHER -> "temp_anom"])
            d2 == MapCol(d1, "year", ToNumeric)
            d3 == FilterCol(d2, "year", InYearWindow)
            d4 == MapCol(d3, "temp_anom", ToNumeric)
            d5 == WithMonthIdx(d4)
            d6 == FilterCol(d5, "month_idx", NotNaN)
        IN  Returned(SortValues(d6, GlobalSortBy))

-----------------------------------------------------------------------------
(* DataFrame.merge(right, on=on, how=how), for frames whose other columns    *)
(* have different labels.  Keys are compared cell by cell, NaN equal to NaN, *)
(* as pandas does when it joins.                                            *)
RECURSIVE Concat(_)
Concat(ss) == IF ss = <<>> THEN <<>> ELSE Head(ss) \o Concat(Tail(ss))

OtherCols(d, on) == SelectSeq(d.cols, LAMBDA c : \A k \in 1..Len(on) : on[k] # c)

Merge(L, R, on, how) ==
    LET rcols == OtherCols(R, on)
        cols == L.cols \o rcols
        rpart(r) == [j \in 1..Len(rcols) |-> r[ColIdx(R, rcols[j])]]
        nans(n) == [j \in 1..n |-> NaN]
        matches(l) == SelectSeq(R.rows, LAMBDA r : KeyOf(R, r, on) = KeyOf(L, l, on))
        \* the rows a left row gives: one per matching right row
        fromLeft(l) ==
            IF matches(l) # <<>>
            THEN [j \in 1..Len(matches(l)) |-> l \o rpart(matches(l)[j])]
            ELSE IF how = "inner" THEN <<>>
            ELSE << l \o nans(Len(rcols)) >>
        \* a right row without a matching left row, laid out in the columns of L
        rightOnly == SelectSeq(R.rows, LAMBDA r :
                        \A i \in 1..Len(L.rows) : KeyOf(L, L.rows[i], on) # KeyOf(R, r, on))
        fromRight(r) ==
            [j \in 1..Len(L.cols) |->
                IF \E k \in 1..Len(on) : on[k] = L.cols[j]
                THEN r[ColIdx(R, L.cols[j])] ELSE NaN] \o rpart(r)
        left == Concat([i \in 1..Len(L.rows) |-> fromLeft(L.rows[i])])
        right == [i \in 1..Len(rightOnly) |-> fromRight(rightOnly[i])]
        joined == [cols |-> cols, rows |-> left]
    IN  IF how = "outer"
        THEN SortValues([cols |-> cols, rows |-> left \o right], on)  \* outer sorts the keys
        ELSE joined

-----------------------------------------------------------------------------
(* main()                                                                   *)
Sources == <<"co2", "energy", "water", "sanit", "gdp">>

\* lines 110-117: the candidate file names of each source
Candidates(s) ==
    CASE s = "co2" -> <<"co-emissions-per-capita.csv", "co2-emissions-per-capita.csv">>
      [] s = "energy" -> <<"per-capita-energy-use.csv">>
      [] s = "water" -> <<"population-using-at-least-basic-drinking-water.csv">>
      [] s = "sanit" -> <<"share-of-population-with-improved-sanitation-facilities.csv",
                          "share-of-population-with-improved-sanitation-faciltities.csv">>
      [] OTHER -> <<"gdp-per-capita-maddison-project-database.csv">>

\* lines 123-127: the name of the value column of each source
ValueName(s) ==
    CASE s = "co2" -> "co2_pc"
      [] s = "energy" -> "energy_pc"
      [] s = "water" -> "water_basic_pct"
      [] s = "sanit" -> "sanitation_pct"
      [] OTHER -> "gdp_pc"

TempZipName == "monthly-temperature-anomalies.zip"
GlobalZipName == "global-temperature-anomalies-by-month.zip"

FileNames ==
    UNION {{Candidates(Sources[i])[j] : j \in 1..Len(Candidates(Sources[i]))} :
            i \in 1..Len(Sources)}
    \cup {TempZipName, GlobalZipName}

Exists(dir, name) == dir[name].kind # "absent"

\* find_first_existing: the first candidate that exists; "" for None
FindFirstExisting(dir, candidates) ==
    LET found == {i \in 1..Len(candidates) : Exists(dir, candidates[i])}
    IN  IF found = {} THEN ""
        ELSE candidates[CHOOSE i \in found : \A j \in found : i <= j]

MergeKey == <<"iso3", "country", "year">>

\* the joins as a slip would write them
IndicatorJoin_Left == "left"
IndicatorJoin_Inner == "inner"
TempJoin_Outer == "outer"
TempJoin_Inner == "inner"

IndicatorJoin == "outer"
TempJoin == "left"

\* lines 119-121
AfterLocate(found) ==
    IF \E i \in 1..Len(Sources) : found[Sources[i]] = "" THEN "error" ELSE "read"

\* lines 110-121: locate the five files; FileNotFoundError if one is missing
Locate ==
    /\ pc = "locate"
    /\ paths' = [s \in DOMAIN paths |-> FindFirstExisting(dataDir, Candidates(s))]
    /\ pc' = AfterLocate(paths')
    /\ UNCHANGED <<dataDir, ind, temp, df, outFile, globalOut, arg, ret, ret2>>

\* the reads wrapped in a try/except like the temperature load
AfterRead_Swallow(results) == "load_temp"

\* lines 123-127: an exception of read_owid_csv is not caught
AfterRead(results) ==
    IF \E i \in 1..Len(Sources) : results[Sources[i]].exc # "none"
    THEN "error" ELSE "load_temp"

\* lines 123-127: the five reads in order; the first exception ends the run
ReadIndicators ==
    /\ pc = "read"
    /\ LET result(s) == ReadOwidCsv(dataDir[paths[s]].df, ValueName(s))
           reached(i) == \A j \in 1..(i - 1) : result(Sources[j]).exc = "none"
       IN  ind' = [s \in DOMAIN ind |->
                    LET i == CHOOSE k \in 1..Len(Sources) : Sources[k] = s
                    IN  IF reached(i) THEN result(s) ELSE None]
    /\ pc' = AfterRead(ind')
    /\ UNCHANGED <<dataDir, paths, temp, df, outFile, globalOut, arg, ret, ret2>>

\* lines 130-136: an exception of the load is caught and temp stays None
LoadTemp ==
    /\ pc = "load_temp"
    /\ temp' = IF Exists(dataDir, TempZipName)
               THEN LET r == LoadCountryTempAnom(dataDir[TempZipName])
                    IN  IF r.exc = "none" THEN r ELSE None
               ELSE None
    /\ pc' = "export_global"
    /\ UNCHANGED <<dataDir, paths, ind, df, outFile, globalOut, arg, ret, ret2>>

\* lines 139-144: an exception of the export is caught
ExportGlobal ==
    /\ pc = "export_global"
    /\ globalOut' = IF Exists(dataDir, GlobalZipName)
                    THEN LET r == ExportGlobalTempMonthly(dataDir[GlobalZipName])
                         IN  IF r.exc = "none" THEN CsvFile(r.df) ELSE globalOut
                    ELSE globalOut
    /\ pc' = "merge"
    /\ UNCHANGED <<dataDir, paths, ind, temp, df, outFile, arg, ret, ret2>>

\* lines 147-150
MergeIndicators(t) ==
    LET m1 == Merge(t["co2"].df, t["energy"].df, MergeKey, IndicatorJoin)
        m2 == Merge(m1, t["water"].df, MergeKey, IndicatorJoin)
        m3 == Merge(m2, t["sanit"].df, MergeKey, IndicatorJoin)
    IN  Merge(m3, t["gdp"].df, MergeKey, IndicatorJoin)

MergeStep ==
    /\ pc = "merge"
    /\ df' = MergeIndicators(ind)
    /\ pc' = "attach"
    /\ UNCHANGED <<dataDir, paths, ind, temp, outFile, globalOut, arg, ret, ret2>>

\* lines 152-153
AttachTemp ==
    /\ pc = "attach"
    /\ df' = IF temp # None THEN Merge(df, temp.df, MergeKey, TempJoin) ELSE df
    /\ pc' = "write"
    /\ UNCHANGED <<dataDir, paths, ind, temp, outFile, globalOut, arg, ret, ret2>>

\* lines 155-157
SortAndWrite ==
    /\ pc = "write"
    /\ df' = SortValues(df, <<"iso3", "year">>)
    /\ outFile' = CsvFile(df')
    /\ pc' = "done"
    /\ UNCHANGED <<dataDir, paths, ind, temp, globalOut, arg, ret, ret2>>

Next ==
    \/ Locate
    \/ ReadIndicators
    \/ LoadTemp
    \/ ExportGlobal
    \/ MergeStep
    \/ AttachTemp
    \/ SortAndWrite

-----------------------------------------------------------------------------
(* Bounded inputs shared by the specifications.                             *)

SeqsUpTo(S, n) == UNION {[1..k -> S] : k \in 0..n}

\* a frame with the given header whose rows take, for each column, the field
\* of that name of a record
MkFrame(header, recs) ==
    [cols |-> header,
     rows |-> [i \in 1..Len(recs) |-> [j \in 1..Len(header) |-> recs[i][header[j]]]]]

IdleMain ==
    /\ dataDir = [n \in FileNames |-> Absent]
    /\ paths = [i \in {} |-> ""]
    /\ ind = [i \in {} |-> None]
    /\ temp = None
    /\ df = EmptyDf
    /\ outFile = Absent
    /\ globalOut = Absent

mainVars == <<dataDir, paths, ind, temp, df, outFile, globalOut>>

-----------------------------------------------------------------------------
(* SpecNorm: read_owid_csv applied to bounded raw tables, and applied again  *)
(* to its own output.                                                       *)
MaxNormRows == 2

OwidRow(entity, code, year, v) ==
    [Entity |-> entity, Code |-> code, Year |-> year, V |-> v, W |-> Num(9)]

NormRows ==
    {OwidRow(Str(Testland), Str(TST), Num(2010), Num(5))}
    \cup {OwidRow(Str(Testland), c, Num(2010), Num(5)) :
            c \in {Str(T1), NaN, Str(tst), Str(TST_NL), Str(TSTX), Num(123)}}
    \cup {OwidRow(Str(Testland), Str(TST), y, Num(5)) :
            y \in {Num(1999), Num(2000), Num(2023), Num(2024), Str(abc), Str(y2010), NaN}}
    \cup {OwidRow(Str(Testland), Str(USA), Num(2010), v) : v \in {Str(abc), NaN}}
    \cup {OwidRow(NaN, Str(FRA), Num(2010), Num(5))}

NormHeaders ==
    { <<"Entity", "Code", "Year", "V">>,
      <<"Entity", "Year", "V">>,
      <<"Entity", "Code", "Year">>,
      <<"Code", "Year", "V">>,
      <<"Entity", "Code", "V">>,
      <<"Entity", "Code", "Year", "V", "W">>,
      <<"Entity", "V", "Code", "Year">> }

NormInputs == {MkFrame(h, rs) : h \in NormHeaders, rs \in SeqsUpTo(NormRows, MaxNormRows)}

\* the output of read_owid_csv with its key columns named as in an OWID file
AsOwid(d) == Rename(d, [c \in {"country", "iso3", "year"} |->
                CASE c = "country" -> "Entity"
                  [] c = "iso3" -> "Code"
                  [] OTHER -> "Year"])

InitNorm ==
    /\ pc = "call"
    /\ arg \in NormInputs
    /\ ret = None
    /\ ret2 = None
    /\ IdleMain

CallReadOwid ==
    /\ pc = "call"
    /\ ret' = ReadOwidCsv(arg, "value")
    /\ pc' = "returned"
    /\ UNCHANGED <<arg, ret2, mainVars>>

ReapplyReadOwid ==
    /\ pc = "returned"
    /\ ret.exc = "none"
    /\ ret2' = ReadOwidCsv(ret.df, "value")
    /\ pc' = "reapplied"
    /\ UNCHANGED <<arg, ret, mainVars>>

ReapplyReadOwidRenamed ==
    /\ pc = "returned"
    /\ ret.exc = "none"
    /\ ret2' = ReadOwidCsv(AsOwid(ret.df), "value")
    /\ pc' = "reapplied_renamed"
    /\ UNCHANGED <<arg, ret, mainVars>>

NextNorm == CallReadOwid \/ ReapplyReadOwid \/ ReapplyReadOwidRenamed

SpecNorm == InitNorm /\ [][NextNorm]_vars

\* C4: every row that read_owid_csv returns has an iso3 code of exactly three
\* upper-case letters and a year within START_YEAR..END_YEAR.
C4_NormalizerOutput ==
    (pc = "returned" /\ ret.exc = "none") =>
        \A i \in 1..Len(ret.df.rows) :
            LET r == ret.df.rows[i]
            IN  /\ IsStr(Cell(ret.df, r, "iso3"))
                /\ Len(Cell(ret.df, r, "iso3").s) = 3
                /\ \A k \in 1..3 : IsUpper(Cell(ret.df, r, "iso3").s[k])
                /\ IsNum(Cell(ret.df, r, "year"))
                /\ START_YEAR * Cell(ret.df, r, "year").d <= Cell(ret.df, r, "year").n
                /\ Cell(ret.df, r, "year").n <= END_YEAR * Cell(ret.df, r, "year").d

\* C8 as stated: read_owid_csv applied to its own output succeeds and yields
\* the same rows.
C8_IdempotentAsStated ==
    pc = "reapplied" => (ret2.exc = "none" /\ ret2.df.rows = ret.df.rows)

\* C8 as amended: read_owid_csv rejects its own output with a ValueError (the
\* output has no Entity and no Year column); applied to that output with the
\* key columns named Entity, Code and Year again it returns the same table.
C8_IdempotentOnRenamed ==
    /\ pc = "reapplied" => ret2.exc = "ValueError"
    /\ pc = "reapplied_renamed" => (ret2.exc = "none" /\ ret2.df = ret.df)

C8_Witness ==
    /\ pc = "reapplied_renamed"
    /\ ret.df.rows # <<>>
    /\ Len(ret.df.rows) < Len(arg.rows)

-----------------------------------------------------------------------------
(* SpecTemp: load_country_temp_anom applied to bounded daily archives.       *)
MaxTempRows == 3

TempRow(entity, code, day, anom) ==
    [c \in TempNeeded |->
        CASE c = "Entity" -> entity
          [] c = "Code" -> code
          [] c = "Day" -> day
          [] OTHER -> anom]

TempRows ==
    { TempRow(Str(Testland), Str(TST), Date(2010, 1, 15), Num(1)),
      TempRow(Str(Testland), Str(TST), Date(2010, 6, 1), Num(3)),
      TempRow(Str(Testland), Str(TST), Date(2010, 7, 1), Num(2)),
      TempRow(Str(Testland), Str(TST), Date(2010, 8, 1), NaN),
      TempRow(Str(Testland), Str(TST), Date(2010, 9, 1), Str(abc)),
      TempRow(Str(Testland), Str(TST), Date(2011, 1, 1), Num(2)),
      TempRow(Str(Testland), Str(TST), Date(1999, 12, 31), Num(5)),
      TempRow(Str(Testland), Str(TST), Date(2010, 2, 30), Num(5)),
      TempRow(Str(Testland), Str(TST), Str(abc), Num(5)),
      TempRow(Str(Testland), Str(T1), Date(2010, 1, 15), Num(4)),
      TempRow(Str(France), Str(TST), Date(2010, 1, 15), Num(7)),
      TempRow(NaN, Str(TST), Date(2010, 1, 15), Num(2)),
      TempRow(Str(UnitedStates), Str(USA), Date(2010, 3, 1), Num(4)) }

TempMember == "monthly-temperature-anomalies.csv"
TempHeader == <<"Entity", "Code", "Day", "Temperature anomaly">>

TempInputs ==
    {ZipFile(TempMember, MkFrame(TempHeader, rs)) : rs \in SeqsUpTo(TempRows, MaxTempRows)}
    \cup { ZipFile(TempMember, MkFrame(<<"Entity", "Day", "Temperature anomaly">>, <<>>)),
           ZipFile("other.csv", MkFrame(TempHeader, <<>>)),
           Garbage }

InitTemp ==
    /\ pc = "call"
    /\ arg \in TempInputs
    /\ ret = None
    /\ ret2 = None
    /\ IdleMain

CallLoadCountryTempAnom ==
    /\ pc = "call"
    /\ ret' = LoadCountryTempAnom(arg)
    /\ pc' = "returned"
    /\ UNCHANGED <<arg, ret2, mainVars>>

NextTemp == CallLoadCountryTempAnom

SpecTemp == InitTemp /\ [][NextTemp]_vars

\* the daily rows of the archive that survive the date, year-window and code
\* filters, with the year of each
C9_Survives(i) ==
    LET r == arg.df.rows[i]
    IN  /\ InYearWindow(YearOf(ToDatetime(Cell(arg.df, r, "Day"))))
        /\ MatchIso3(AsString(Cell(arg.df, r, "Code")))
C9_Surviving == {i \in 1..Len(arg.df.rows) : C9_Survives(i)}
C9_Code(i) == AsString(Cell(arg.df, arg.df.rows[i], "Code"))
C9_Name(i) == Cell(arg.df, arg.df.rows[i], "Entity")
C9_Year(i) == YearOf(ToDatetime(Cell(arg.df, arg.df.rows[i], "Day")))
C9_Anom(i) == ToNumeric(Cell(arg.df, arg.df.rows[i], "Temperature anomaly"))

RECURSIVE C9_Sum(_)
C9_Sum(S) ==
    IF S = {} THEN 0
    ELSE LET i == CHOOSE j \in S : TRUE IN C9_Anom(i).n + C9_Sum(S \ {i})

\* the output row is the mean of the numeric anomalies of the rows in S
C9_IsMeanOf(row, S) ==
    LET valid == {i \in S : IsNum(C9_Anom(i))}
        m == Cell(ret.df, row, "temp_anom")
    IN  IF valid = {} THEN IsNaN(m)
        ELSE IsNum(m) /\ m.n * Cardinality(valid) = C9_Sum(valid) * m.d

\* C9 as stated: every (country_code, year) with a surviving daily row has
\* exactly one output row, holding the mean of the non-null anomalies of those
\* rows, and null when all of them are null.
C9_AnnualMeanPerCodeYear ==
    (pc = "returned" /\ ret.exc = "none") =>
        \A i \in C9_Surviving :
            LET same == {j \in C9_Surviving :
                            C9_Code(j) = C9_Code(i) /\ C9_Year(j) = C9_Year(i)}
                out == {k \in 1..Len(ret.df.rows) :
                            /\ Cell(ret.df, ret.df.rows[k], "iso3") = C9_Code(i)
                            /\ Cell(ret.df, ret.df.rows[k], "year") = C9_Year(i)}
            IN  /\ Cardinality(out) = 1
                /\ \A k \in out : C9_IsMeanOf(ret.df.rows[k], same)

\* C9 as amended: the groups are the (country_code, country_name, year) keys.
\* Every key with a non-null country name that has a surviving daily row has
\* exactly one output row, holding the mean of the non-null anomalies of the
\* rows of that key (null when all are null); surviving rows whose country
\* name is null produce no output row; nothing else is in the output.
C9_AnnualMeanPerKey ==
    (pc = "returned" /\ ret.exc = "none") =>
        /\ \A i \in C9_Surviving :
            LET same == {j \in C9_Surviving :
                            /\ C9_Code(j) = C9_Code(i)
                            /\ C9_Name(j) = C9_Name(i)
                            /\ C9_Year(j) = C9_Year(i)}
                out == {k \in 1..Len(ret.df.rows) :
                            KeyOf(ret.df, ret.df.rows[k], <<"iso3", "country", "year">>)
                                = <<C9_Code(i), C9_Name(i), C9_Year(i)>>}
            IN  IF IsNaN(C9_Name(i)) THEN out = {}
                ELSE /\ Cardinality(out) = 1
                     /\ \A k \in out : C9_IsMeanOf(ret.df.rows[k], same)
        /\ \A k \in 1..Len(ret.df.rows) :
            \E i \in C9_Surviving :
                KeyOf(ret.df, ret.df.rows[k], <<"iso3", "country", "year">>)
                    = <<C9_Code(i), C9_Name(i), C9_Year(i)>>

\* a year of Testland with the anomalies 1, 3 and a null: the mean is 2
C9_Witness ==
    /\ pc = "returned"
    /\ ret.exc = "none"
    /\ Len(arg.df.rows) = 3
    /\ \E i, j, k \in C9_Surviving :
        /\ C9_Anom(i) = Num(1) /\ C9_Anom(j) = Num(3) /\ IsNaN(C9_Anom(k))
    /\ Len(ret.df.rows) = 1
    /\ Cell(ret.df, ret.df.rows[1], "temp_anom") = Num(2)

-----------------------------------------------------------------------------
(* SpecGlobal: export_global_temp_monthly applied to bounded archives.       *)
MaxGlobalRows == 3

GlobalRow(month, year, anom) ==
    [c \in GlobalNeeded |->
        CASE c = "Entity" -> month
          [] c = "Year" -> year
          [] OTHER -> anom]

GlobalRows ==
    { GlobalRow(Str(January), Num(2010), Num(1)),
      GlobalRow(Str(January), Num(2010), Num(5)),
      GlobalRow(Str(December), Num(2010), Num(2)),
      GlobalRow(Str(January), Num(2011), Num(3)),
      GlobalRow(Str(February), Num(2010), NaN),
      GlobalRow(Str(March), Str(y2010), Str(abc)),
      GlobalRow(Str(january), Num(2010), Num(1)),
      GlobalRow(Str(Smarch), Num(2010), Num(1)),
      GlobalRow(NaN, Num(2010), Num(1)),
      GlobalRow(Str(January), Num(1999), Num(1)),
      GlobalRow(Str(January), Str(abc), Num(1)) }

GlobalMember == "global-temperature-anomalies-by-month.csv"
GlobalHeader == <<"Entity", "Year", "Temperature anomaly">>

GlobalInputs ==
    {ZipFile(GlobalMember, MkFrame(GlobalHeader, rs)) :
        rs \in SeqsUpTo(GlobalRows, MaxGlobalRows)}
    \cup { ZipFile(GlobalMember, MkFrame(<<"Entity", "Year">>, <<>>)),
           ZipFile("other.csv", MkFrame(GlobalHeader, <<>>)),
           Garbage }

InitGlobal ==
    /\ pc = "call"
    /\ arg \in GlobalInputs
    /\ ret = None
    /\ ret2 = None
    /\ IdleMain

\* a call of export_global_temp_monthly: the file is written by the last
\* statement before the print, so an exception leaves it unwritten
CallExportGlobalTempMonthly ==
    /\ pc = "call"
    /\ ret' = ExportGlobalTempMonthly(arg)
    /\ globalOut' = IF ret'.exc = "none" THEN CsvFile(ret'.df) ELSE globalOut
    /\ pc' = "returned"
    /\ UNCHANGED <<arg, ret2, dataDir, paths, ind, temp, df, outFile>>

NextGlobal == CallExportGlobalTempMonthly

SpecGlobal == InitGlobal /\ [][NextGlobal]_vars

C7_Year(row) == Cell(globalOut.df, row, "year")
C7_Month(row) == Cell(globalOut.df, row, "month_idx")

\* (year, month_idx) of a is at most that of b, lexicographically
C7_LexLeq(a, b) ==
    \/ C7_Year(a).n < C7_Year(b).n
    \/ C7_Year(a).n = C7_Year(b).n /\ C7_Month(a).n <= C7_Month(b).n

C7_RowsInRange ==
    \A i \in 1..Len(globalOut.df.rows) :
        LET r == globalOut.df.rows[i]
        IN  /\ IsNum(C7_Year(r)) /\ C7_Year(r).d = 1
            /\ C7_Year(r).n \in START_YEAR..END_YEAR
            /\ IsNum(C7_Month(r)) /\ C7_Month(r).d = 1
            /\ C7_Month(r).n \in 1..12
            /\ IsStr(Cell(globalOut.df, r, "month"))
            /\ \E m \in 1..12 : month_order[m] = Cell(globalOut.df, r, "month").s
                                /\ C7_Month(r).n = m

\* the rows of the archive that the export keeps
C7_Kept == {i \in 1..Len(arg.df.rows) :
                /\ InYearWindow(ToNumeric(Cell(arg.df, arg.df.rows[i], "Year")))
                /\ ~IsNaN(MapMonth(Cell(arg.df, arg.df.rows[i], "Entity")))}

\* C7 as stated: consecutive rows of the written table are non-decreasing in
\* (year, month_idx) and never share both; years are in 2000..2023, month_idx
\* in 1..12, and unrecognised month names are absent.
C7_StrictOrder ==
    globalOut.kind = "csv" =>
        /\ C7_RowsInRange
        /\ \A i \in 1..(Len(globalOut.df.rows) - 1) :
            LET a == globalOut.df.rows[i]
                b == globalOut.df.rows[i + 1]
            IN  /\ C7_LexLeq(a, b)
                /\ (C7_Year(a) # C7_Year(b) \/ C7_Month(a) # C7_Month(b))

\* C7 as amended: consecutive rows are non-decreasing in (year, month_idx);
\* the export keeps every archive row of a recognised month within the year
\* window, duplicates included, so two consecutive rows share both year and
\* month_idx exactly when the archive holds more than one such row for that
\* month of that year; ranges and month names as stated.
C7_SortedKeepingDuplicates ==
    globalOut.kind = "csv" =>
        /\ C7_RowsInRange
        /\ Len(globalOut.df.rows) = Cardinality(C7_Kept)
        /\ \A i \in 1..(Len(globalOut.df.rows) - 1) :
            LET a == globalOut.df.rows[i]
                b == globalOut.df.rows[i + 1]
            IN  /\ C7_LexLeq(a, b)
                /\ (C7_Year(a) = C7_Year(b) /\ C7_Month(a) = C7_Month(b)) =>
                    Cardinality({k \in C7_Kept :
                        /\ ToNumeric(Cell(arg.df, arg.df.rows[k], "Year")) = C7_Year(a)
                        /\ MapMonth(Cell(arg.df, arg.df.rows[k], "Entity")) = C7_Month(a)})
                      >= 2
        /\ \A j \in C7_Kept :
            LET y == ToNumeric(Cell(arg.df, arg.df.rows[j], "Year"))
                m == MapMonth(Cell(arg.df, arg.df.rows[j], "Entity"))
            IN  Cardinality({k \in C7_Kept :
                    /\ ToNumeric(Cell(arg.df, arg.df.rows[k], "Year")) = y
                    /\ MapMonth(Cell(arg.df, arg.df.rows[k], "Entity")) = m})
                = Cardinality({i \in 1..Len(globalOut.df.rows) :
                    /\ C7_Year(globalOut.df.rows[i]) = y
                    /\ C7_Month(globalOut.df.rows[i]) = m})

\* an archive listing December 2010 before January 2010 and an unrecognised
\* month: the written table has the two rows in calendar order
C7_Witness ==
    /\ globalOut.kind = "csv"
    /\ Len(arg.df.rows) = 3
    /\ Cell(arg.df, arg.df.rows[1], "Entity") = Str(December)
    /\ Cell(arg.df, arg.df.rows[2], "Entity") = Str(Smarch)
    /\ Cell(arg.df, arg.df.rows[3], "Entity") = Str(January)
    /\ Len(globalOut.df.rows) = 2
    /\ C7_Month(globalOut.df.rows[1]) = Num(1)
    /\ C7_Month(globalOut.df.rows[2]) = Num(12)

-----------------------------------------------------------------------------
(* Spec: main() on bounded contents of DATA_DIR.                             *)
(*                                                                         *)
(* Two families of directories.  In the first the five indicator files are  *)
(* all well formed and hold at most MaxRowsTotal rows between them, in      *)
(* every distribution, with every combination of the two archives.  In the  *)
(* second each indicator file is, independently, well formed, missing,      *)
(* present under its alternate name, or of a shape read_owid_csv rejects.   *)
MaxRowsTotal == 2

OwidHeader == <<"Entity", "Code", "Year", "V">>

MainRows ==
    { OwidRow(Str(UnitedStates), Str(USA), Num(2015), Num(1)),
      OwidRow(Str(UnitedStates), Str(USA), Num(2015), Num(2)),
      OwidRow(Str(America), Str(USA), Num(2015), Num(1)),
      OwidRow(Str(France), Str(FRA), Num(2016), Num(3)) }

SourceSet == {Sources[i] : i \in 1..Len(Sources)}

\* the ways to spread at most n rows over the five files
RECURSIVE Spread(_)
Spread(n) ==
    IF n = 0 THEN {[s \in SourceSet |-> <<>>]}
    ELSE LET prev == Spread(n - 1)
         IN  prev \cup {[f EXCEPT ![s] = Append(@, r)] :
                            f \in prev, s \in SourceSet, r \in MainRows}

TempArchives ==
    { Absent,
      Garbage,
      ZipFile(TempMember, MkFrame(TempHeader,
        << TempRow(Str(UnitedStates), Str(USA), Date(2015, 1, 15), Num(1)),
           TempRow(Str(UnitedStates), Str(USA), Date(2015, 6, 1), Num(3)),
           TempRow(Str(France), Str(FRA), Date(2015, 6, 1), Num(4)),
           TempRow(Str(Testland), Str(TST), Date(2010, 1, 15), Num(5)) >>)) }

GlobalArchives ==
    { Absent,
      ZipFile(GlobalMember, MkFrame(<<"Entity", "Year">>, <<>>)),
      ZipFile(GlobalMember, MkFrame(GlobalHeader,
        << GlobalRow(Str(December), Num(2010), Num(2)),
           GlobalRow(Str(January), Num(2010), Num(1)) >>)) }

\* a directory in which every source is present under its first name
DirOf(tables, tempZip, globalZip) ==
    [n \in FileNames |->
        IF n = TempZipName THEN tempZip
        ELSE IF n = GlobalZipName THEN globalZip
        ELSE IF \E s \in SourceSet : Candidates(s)[1] = n
             THEN CsvFile(MkFrame(OwidHeader,
                    tables[CHOOSE s \in SourceSet : Candidates(s)[1] = n]))
        ELSE Absent]

WellFormedDirs ==
    {DirOf(t, tz, gz) : t \in Spread(MaxRowsTotal), tz \in TempArchives, gz \in GlobalArchives}

GoodFile == CsvFile(MkFrame(OwidHeader,
                << OwidRow(Str(UnitedStates), Str(USA), Num(2015), Num(1)) >>))
NoEntityFile == CsvFile(MkFrame(<<"Code", "Year", "V">>, <<>>))
NoYearFile == CsvFile(MkFrame(<<"Entity", "Code", "V">>, <<>>))
NoValueFile == CsvFile(MkFrame(<<"Entity", "Code", "Year">>, <<>>))

\* what the candidate names of a source hold: <<first name, alternate name>>
Placements(s) ==
    {<<f, Absent>> : f \in {GoodFile, Absent, NoEntityFile, NoValueFile}}
    \cup (IF Len(Candidates(s)) = 2
          THEN {<<Absent, GoodFile>>, <<NoYearFile, GoodFile>>}
          ELSE {})

DefectDirs ==
    {[n \in FileNames |->
        IF n = TempZipName
            THEN CHOOSE z \in TempArchives : z.kind = "zip" /\ z.df.rows # <<>>
        ELSE IF n = GlobalZipName
            THEN CHOOSE z \in GlobalArchives : z.kind = "zip" /\ z.df.rows # <<>>
        ELSE LET s == CHOOSE x \in SourceSet : \E j \in 1..Len(Candidates(x)) : Candidates(x)[j] = n
                 j == CHOOSE k \in 1..Len(Candidates(s)) : Candidates(s)[k] = n
             IN  p[s][j]] :
     p \in [SourceSet -> UNION {Placements(s) : s \in SourceSet}] \cap
           {q \in [SourceSet -> UNION {Placements(s) : s \in SourceSet}] :
                \A s \in SourceSet : q[s] \in Placements(s)}}

Init ==
    /\ pc = "locate"
    /\ dataDir \in WellFormedDirs \cup DefectDirs
    /\ paths = [s \in SourceSet |-> ""]
    /\ ind = [s \in SourceSet |-> None]
    /\ temp = None
    /\ df = EmptyDf
    /\ outFile = Absent
    /\ globalOut = Absent
    /\ arg = None
    /\ ret = None
    /\ ret2 = None

Spec == Init /\ [][Next]_vars

-----------------------------------------------------------------------------
(* Claims about main().                                                     *)
KeysOf(d) == {KeyOf(d, d.rows[i], MergeKey) : i \in 1..Len(d.rows)}
RowsWithKey(d, k) == {i \in 1..Len(d.rows) : KeyOf(d, d.rows[i], MergeKey) = k}
IndKeys == UNION {KeysOf(ind[s].df) : s \in SourceSet}
Mult(s, k) == Cardinality(RowsWithKey(ind[s].df, k))

\* C1: the key set of the written master table is the union of the key sets of
\* the five normalised indicator tables, with or without a temperature table.
C1_MergeCompleteness ==
    pc = "done" => KeysOf(outFile.df) = IndKeys

C1_Witness ==
    /\ pc = "done"
    /\ temp # None
    /\ KeysOf(ind["gdp"].df) \ KeysOf(ind["co2"].df) # {}
    /\ KeysOf(ind["co2"].df) \ KeysOf(ind["gdp"].df) # {}

C2_NullWhereLacking(k) ==
    \A s \in SourceSet : Mult(s, k) = 0 =>
        \A i \in RowsWithKey(outFile.df, k) :
            IsNaN(Cell(outFile.df, outFile.df.rows[i], ValueName(s)))

RECURSIVE C2_Product(_, _)
C2_Product(S, k) ==
    IF S = {} THEN 1
    ELSE LET s == CHOOSE x \in S : TRUE
         IN  (IF Mult(s, k) = 0 THEN 1 ELSE Mult(s, k)) * C2_Product(S \ {s}, k)

C3_TempOnlyKeys == IF temp = None THEN {} ELSE KeysOf(temp.df) \ IndKeys

\* C3: attaching the temperature table leaves the key set of the merged
\* indicator table unchanged, and no key that only the temperature table holds
\* is the key of a row of the written master table.
C3_LeftJoin ==
    [][ /\ pc = "attach" => KeysOf(df') = KeysOf(df)
        /\ pc' = "done" => \A k \in C3_TempOnlyKeys : RowsWithKey(outFile'.df, k) = {}
      ]_vars

C3_Witness ==
    /\ pc = "done"
    /\ temp # None
    /\ C3_TempOnlyKeys # {}
    /\ KeysOf(temp.df) \cap IndKeys # {}
    /\ HasCol(outFile.df, "temp_anom")

C5_Missing(s) == \A j \in 1..Len(Candidates(s)) : ~Exists(dataDir, Candidates(s)[j])

\* the file found for the source has no Entity or no Year column, or no
\* column besides Entity, Code and Year
C5_Rejected(s) ==
    /\ ~C5_Missing(s)
    /\ LET d == dataDir[FindFirstExisting(dataDir, Candidates(s))].df
       IN  \/ ~HasCol(d, "Entity")
           \/ ~HasCol(d, "Year")
           \/ \A i \in 1..Len(d.cols) : d.cols[i] \in KeyCols

\* C5: when a required indicator file is missing or rejected, the run ends in
\* an error and neither output file is written at any point of the run.  (The
\* run stops only at "done" or "error": every other position has an action
\* with no further guard, so a run that never passes "read" ends in "error".)
C5_RequiredFailureAborts ==
    (\E s \in SourceSet : C5_Missing(s) \/ C5_Rejected(s)) =>
        /\ outFile = Absent
        /\ globalOut = Absent
        /\ pc \in {"locate", "read", "error"}

C5_Witness ==
    /\ pc = "error"
    /\ \A s \in SourceSet : ~C5_Missing(s)
    /\ C5_Rejected("gdp")
    /\ \A s \in SourceSet \ {"gdp"} : ~C5_Rejected(s)
    /\ ExportGlobalTempMonthly(dataDir[GlobalZipName]).exc = "none"

C6_AllLoad == \A s \in SourceSet : ~C5_Missing(s) /\ ~C5_Rejected(s)

\* the archive is a zip holding the expected member with the needed columns
C6_ArchiveLoads(name, member, needed) ==
    /\ dataDir[name].kind = "zip"
    /\ dataDir[name].member = member
    /\ \A c \in needed : HasCol(dataDir[name].df, c)

C6_IndicatorCols ==
    MergeKey \o <<"co2_pc", "energy_pc", "water_basic_pct", "sanitation_pct", "gdp_pc">>

\* C6: when the five indicator files load, the run reaches the write of the
\* master table whatever the state of the two archives; the table has the
\* temp_anom column exactly when the country archive loaded, the global file
\* is written only when its archive loaded, and the indicator columns of the
\* table are those of the merge of the five tables alone.
C6_OptionalFailuresDegrade ==
    C6_AllLoad =>
        /\ pc # "error"
        /\ globalOut.kind = "csv" =>
                C6_ArchiveLoads(GlobalZipName, GlobalMember, GlobalNeeded)
        /\ pc = "done" =>
            /\ outFile.kind = "csv"
            /\ HasCol(outFile.df, "temp_anom")
                  <=> C6_ArchiveLoads(TempZipName, TempMember, TempNeeded)
            /\ Select(outFile.df, C6_IndicatorCols)
                  = SortValues(MergeIndicators(ind), <<"iso3", "year">>)

C6_Witness ==
    /\ pc = "done"
    /\ C6_AllLoad
    /\ dataDir[TempZipName] = Garbage
    /\ dataDir[GlobalZipName].kind = "zip"
    /\ ~C6_ArchiveLoads(GlobalZipName, GlobalMember, GlobalNeeded)
    /\ globalOut = Absent
    /\ Len(outFile.df.rows) = 2

C10_Value(s, i) == Cell(ind[s].df, ind[s].df.rows[i], ValueName(s))
C10_CodeYear(d, i) == KeyOf(d, d.rows[i], <<"iso3", "year">>)
C10_WithCodeYear(d, cy) == {i \in 1..Len(d.rows) : C10_CodeYear(d, i) = cy}

\* the row of the master table carries the co2 and gdp values and nothing else
C10_Fused(row, co2Value, gdpValue) ==
    /\ Cell(outFile.df, row, "co2_pc") = co2Value
    /\ Cell(outFile.df, row, "gdp_pc") = gdpValue
    /\ IsNaN(Cell(outFile.df, row, "energy_pc"))
    /\ IsNaN(Cell(outFile.df, row, "water_basic_pct"))
    /\ IsNaN(Cell(outFile.df, row, "sanitation_pct"))

\* C10 as stated: a (country code, year) that is once in co2, once in gdp and
\* in none of the other three tables has exactly one row in the master table,
\* with co2_pc and gdp_pc from the sources and the other three values null.
C10_FusionPerCodeYear ==
    pc = "done" =>
        \A i \in 1..Len(ind["co2"].df.rows) :
            LET cy == C10_CodeYear(ind["co2"].df, i)
                g == C10_WithCodeYear(ind["gdp"].df, cy)
            IN  ( /\ C10_WithCodeYear(ind["co2"].df, cy) = {i}
                  /\ Cardinality(g) = 1
                  /\ \A s \in {"energy", "water", "sanit"} :
                        C10_WithCodeYear(ind[s].df, cy) = {} )
                => /\ Cardinality(C10_WithCodeYear(outFile.df, cy)) = 1
                   /\ \A o \in C10_WithCodeYear(outFile.df, cy), j \in g :
                        C10_Fused(outFile.df.rows[o], C10_Value("co2", i),
                                  C10_Value("gdp", j))

\* C10 as amended: the rows are fused on the key (iso3, country, year).  A key
\* that is once in co2, once in gdp and in none of the other three tables has
\* exactly one row in the master table, with co2_pc and gdp_pc holding the
\* values of the two source rows and the other three values null.
C10_FusionPerKey ==
    pc = "done" =>
        \A k \in IndKeys :
            ( /\ Mult("co2", k) = 1
              /\ Mult("gdp", k) = 1
              /\ \A s \in {"energy", "water", "sanit"} : Mult(s, k) = 0 )
            => /\ Cardinality(RowsWithKey(outFile.df, k)) = 1
               /\ \A o \in RowsWithKey(outFile.df, k),
                     i \in RowsWithKey(ind["co2"].df, k),
                     j \in RowsWithKey(ind["gdp"].df, k) :
                        C10_Fused(outFile.df.rows[o], C10_Value("co2", i),
                                  C10_Value("gdp", j))

C10_Witness ==
    /\ pc = "done"
    /\ \E k \in IndKeys :
        /\ k[1] = Str(USA) /\ k[3] = Num(2015)
        /\ Mult("co2", k) = 1 /\ Mult("gdp", k) = 1
        /\ \A s \in {"energy", "water", "sanit"} : Mult(s, k) = 0
        /\ \E o \in RowsWithKey(outFile.df, k) :
            C10_Fused(outFile.df.rows[o], Num(1), Num(2))

=============================================================================
